---------------------------- MODULE Spec2Model ----------------------------
(***************************************************************************)
(* Document structure consolidation of marker: the block merger of         *)
(* MoleculeLayoutBuilder, the layout rules of LayoutRuleProcessor and the  *)
(* reading order of OrderProcessor, as state machines over one Document.   *)
(*                                                                         *)
(* Conventions.  A polygon is its four corners.  A block identifier is the *)
(* pair <<page_id, block_id>>; block_id is the 1-based position of the     *)
(* block in its page's children, and 0 for a block not yet placed.  A      *)
(* ratio (overlap fraction, threshold, width_ratio) is a pair <<n, d>>     *)
(* with d > 0, compared by cross multiplication.  Order keys of the        *)
(* default ordering are stored doubled, so that a midpoint is an integer.  *)
(***************************************************************************)
EXTENDS Integers, Sequences, FiniteSets, TLC

VARIABLES
    pages,              \* Document.pages: the PageGroup records, each owning its children
    oplog,              \* the calls made on the page collaborators, in order
    rule_engine,        \* RuleEngine configuration: category -> rule records
    detection_results,  \* the detector's payload handed to the merger
    call_args,          \* arguments of a direct _replace_overlapping_blocks call
    pages0,             \* the pages as they were when the latest call began
    pc,                 \* position of the processing pass
    clock,              \* the reading of time.time(), in seconds
    REQUEST_TIMESTAMPS, \* gemini.py: model -> deque of admission times
    RATE_LIMIT_LOCK,    \* gemini.py: the thread holding the lock, 0 when free
    threads,            \* each thread's position in BaseGeminiService.__call__
    sent                \* the generate_content requests sent, in order

document_vars == <<pages, oplog, rule_engine, detection_results, call_args, pages0, pc>>
service_vars == <<clock, REQUEST_TIMESTAMPS, RATE_LIMIT_LOCK, threads, sent>>
vars == <<pages, oplog, rule_engine, detection_results, call_args, pages0, pc,
          clock, REQUEST_TIMESTAMPS, RATE_LIMIT_LOCK, threads, sent>>

-----------------------------------------------------------------------------
(* Bounds of the model *)

MaxExisting == 2
MaxCands == 2
MaxCalls == 2
MaxPages == 2

-----------------------------------------------------------------------------
(* Generic helpers *)

Min2(a, b) == IF a <= b THEN a ELSE b
Max2(a, b) == IF a >= b THEN a ELSE b

Range(s) == {s[i] : i \in 1..Len(s)}

\* list.index(x) without the ValueError: the first position of x, or 0.
IndexOf(s, x) ==
    IF \E i \in 1..Len(s) : s[i] = x
    THEN CHOOSE i \in 1..Len(s) : s[i] = x /\ \A j \in 1..(i - 1) : s[j] # x
    ELSE 0

Has(d, k) == k \in DOMAIN d

SeqsUpTo(S, n) == UNION {[1..k -> S] : k \in 0..n}

\* a/b >= c/d for positive denominators
RatioGeq(r, t) == r[1] * t[2] >= t[1] * r[2]

-----------------------------------------------------------------------------
(* GeometryKernel *)

\* PolygonBox.from_bbox: [x1,y1,x2,y2] -> its four corners.
bbox_to_polygon(bbox) ==
    << <<bbox[1], bbox[2]>>, <<bbox[3], bbox[2]>>,
       <<bbox[3], bbox[4]>>, <<bbox[1], bbox[4]>> >>

x_start(p) == Min2(Min2(p[1][1], p[2][1]), Min2(p[3][1], p[4][1]))
x_end(p)   == Max2(Max2(p[1][1], p[2][1]), Max2(p[3][1], p[4][1]))
y_start(p) == Min2(Min2(p[1][2], p[2][2]), Min2(p[3][2], p[4][2]))
y_end(p)   == Max2(Max2(p[1][2], p[2][2]), Max2(p[3][2], p[4][2]))

width(p)  == x_end(p) - x_start(p)
height(p) == y_end(p) - y_start(p)
area(p)   == width(p) * height(p)

intersection_area(p, q) ==
    Max2(0, Min2(x_end(p), x_end(q)) - Max2(x_start(p), x_start(q)))
  * Max2(0, Min2(y_end(p), y_end(q)) - Max2(y_start(p), y_start(q)))

\* Overlap fraction: the part of the smaller polygon covered by the
\* intersection; 0 for an empty polygon.
intersection_pct(self, other) ==
    LET a == Min2(area(self), area(other))
    IN  IF a = 0 THEN <<0, 1>> ELSE <<intersection_area(self, other), a>>

-----------------------------------------------------------------------------
(* Blocks, pages and the Document index *)

BlockId(b) == <<b.page_id, b.block_id>>

\* A block as its constructor leaves it: no block id yet.  obj stands for
\* the identity of the Python object (two detections with equal boxes are
\* two blocks); spans are the contained Span blocks' source positions.
NewBlock(btype, polygon, page_id, spans, obj) ==
    [block_id |-> 0, page_id |-> page_id, block_type |-> btype,
     polygon |-> polygon, removed |-> FALSE, spans |-> spans, obj |-> obj]

NewPage(page_id, w, h) ==
    [page_id |-> page_id, polygon |-> bbox_to_polygon(<<0, 0, w, h>>),
     structure |-> <<>>, children |-> <<>>,
     text_extraction_method |-> "pdftext", layout_sliced |-> TRUE,
     layout_rules_applied |-> <<>>]

PageIndex(ps, page_id) ==
    CHOOSE i \in 1..Len(ps) : ps[i].page_id = page_id

\* Document.get_block: the index resolves an identifier whether or not the
\* identifier is still in a structure.
Resolves(ps, id) ==
    \E i \in 1..Len(ps) :
        ps[i].page_id = id[1] /\ id[2] \in 1..Len(ps[i].children)

get_block(ps, id) == ps[PageIndex(ps, id[1])].children[id[2]]

\* PageGroup.current_children: the children not marked removed, in order.
current_children(page) ==
    SelectSeq(page.children, LAMBDA c : ~c.removed)

\* PageGroup.add_full_block: the page assigns the next block id and owns
\* the block; structure is not touched.
add_full_block(page, block) ==
    LET n == Len(page.children) + 1
    IN  [page EXCEPT !.children = Append(@, [block EXCEPT !.block_id = n])]

\* PageGroup.replace_block: the new block is added to the page, takes the
\* old block's (first) place in structure, and the old block is retired.
replace_block(page, old, new) ==
    LET p1  == add_full_block(page, new)
        nid == BlockId(p1.children[Len(p1.children)])
        i   == IndexOf(page.structure, BlockId(old))
    IN  [p1 EXCEPT
            !.structure = IF i = 0 THEN @ ELSE [@ EXCEPT ![i] = nid],
            !.children  = [@ EXCEPT ![old.block_id].removed = TRUE]]

\* PageGroup.remove_structure_items: the ids leave structure only.
remove_structure_items(page, block_ids) ==
    [page EXCEPT !.structure = SelectSeq(@, LAMBDA id : id \notin Range(block_ids))]

\* A page as the earlier builders leave it: every block a child, structure
\* listing the top-level blocks in the given order of child positions.
RECURSIVE WithChildren(_, _, _)
WithChildren(page, blocks, k) ==
    IF k > Len(blocks) THEN page
    ELSE WithChildren(add_full_block(page, [blocks[k] EXCEPT !.page_id = page.page_id]),
                      blocks, k + 1)

BuiltPage(page, blocks, order) ==
    [WithChildren(page, blocks, 1) EXCEPT
        !.structure = [i \in 1..Len(order) |-> <<page.page_id, order[i]>>]]

-----------------------------------------------------------------------------
(* BlockMerger: MoleculeLayoutBuilder *)

overlap_threshold == <<9, 10>>
table_overlap_threshold == <<9, 10>>

\* A world is what the handlers mutate: the pages and the observed calls.
World(ps, log) == [pages |-> ps, oplog |-> log]

LogEntry(op, page_id, old, new, obj) ==
    [op |-> op, page_id |-> page_id, old |-> old, new |-> new, obj |-> obj]

NoId == <<0, 0>>

\* The scan of one candidate over page.current_children (lines 497-521):
\* the position in `cur` of the first block that passes the type filters
\* and reaches the threshold, 0 if the scan ends without a break.
RECURSIVE ScanFrom(_, _, _, _, _, _)
ScanFrom(cur, i, new_block, threshold, exclude_types, target_types) ==
    IF i > Len(cur) THEN 0
    ELSE IF cur[i].block_type \in exclude_types
         THEN ScanFrom(cur, i + 1, new_block, threshold, exclude_types, target_types)
    ELSE IF target_types # {} /\ cur[i].block_type \notin target_types
         THEN ScanFrom(cur, i + 1, new_block, threshold, exclude_types, target_types)
    ELSE IF RatioGeq(intersection_pct(cur[i].polygon, new_block.polygon), threshold)
         THEN i
    ELSE ScanFrom(cur, i + 1, new_block, threshold, exclude_types, target_types)

\* Variants of the scan with a plausible slip: no break at the first match,
\* and no type filter.
FindTargetLast(page, new_block, threshold, exclude_types, target_types) ==
    LET cur == current_children(page)
        Q   == {i \in 1..Len(cur) :
                   ScanFrom(cur, i, new_block, threshold, exclude_types, target_types) = i}
    IN  IF Q = {} THEN 0 ELSE CHOOSE i \in Q : \A j \in Q : j <= i

FindTargetUnfiltered(page, new_block, threshold, exclude_types, target_types) ==
    ScanFrom(current_children(page), 1, new_block, threshold, {}, {})

FindTarget(page, new_block, threshold, exclude_types, target_types) ==
    ScanFrom(current_children(page), 1, new_block, threshold, exclude_types, target_types)

\* blocks_to_replace: the (old_block, new_block) pairs, in candidate order.
RECURSIVE BlocksToReplace(_, _, _, _, _, _)
BlocksToReplace(page, new_blocks, k, threshold, exclude_types, target_types) ==
    IF k > Len(new_blocks) THEN <<>>
    ELSE LET t    == FindTarget(page, new_blocks[k], threshold, exclude_types, target_types)
             rest == BlocksToReplace(page, new_blocks, k + 1, threshold,
                                     exclude_types, target_types)
         IN  IF t = 0 THEN rest
             ELSE <<[old |-> current_children(page)[t], new |-> new_blocks[k]]>> \o rest

\* blocks_to_add: the candidates whose scan found nothing, in candidate order.
RECURSIVE BlocksToAdd(_, _, _, _, _, _)
BlocksToAdd(page, new_blocks, k, threshold, exclude_types, target_types) ==
    IF k > Len(new_blocks) THEN <<>>
    ELSE LET t    == FindTarget(page, new_blocks[k], threshold, exclude_types, target_types)
             rest == BlocksToAdd(page, new_blocks, k + 1, threshold,
                                 exclude_types, target_types)
         IN  IF t = 0 THEN <<new_blocks[k]>> \o rest ELSE rest

\* The first loop of _execute_block_operations (lines 536-539).
RECURSIVE ExecuteReplacements(_, _, _, _)
ExecuteReplacements(w, pi, blocks_to_replace, k) ==
    IF k > Len(blocks_to_replace) THEN w
    ELSE LET page == w.pages[pi]
             pair == blocks_to_replace[k]
             new  == [pair.new EXCEPT !.page_id = page.page_id]
             p1   == replace_block(page, pair.old, new)
             e    == LogEntry("replace_block", page.page_id, BlockId(pair.old),
                              BlockId(p1.children[Len(p1.children)]), new.obj)
         IN  ExecuteReplacements(
                 World([w.pages EXCEPT ![pi] = p1], Append(w.oplog, e)),
                 pi, blocks_to_replace, k + 1)

\* The second loop of _execute_block_operations (lines 542-547).
RECURSIVE ExecuteAdditions(_, _, _, _)
ExecuteAdditions(w, pi, blocks_to_add, k) ==
    IF k > Len(blocks_to_add) THEN w
    ELSE LET page == w.pages[pi]
             new  == [blocks_to_add[k] EXCEPT !.page_id = page.page_id]
             p1   == add_full_block(page, new)
             nid  == BlockId(p1.children[Len(p1.children)])
             p2   == [p1 EXCEPT !.structure = Append(@, nid)]
             e    == LogEntry("add_full_block", page.page_id, NoId, nid, new.obj)
         IN  ExecuteAdditions(
                 World([w.pages EXCEPT ![pi] = p2], Append(w.oplog, e)),
                 pi, blocks_to_add, k + 1)

ExecuteAddsThenReplaces(w, pi, blocks_to_replace, blocks_to_add) ==
    ExecuteReplacements(ExecuteAdditions(w, pi, blocks_to_add, 1), pi, blocks_to_replace, 1)

\* _execute_block_operations: every replacement, then every addition.
ExecuteBlockOperations(w, pi, blocks_to_replace, blocks_to_add) ==
    ExecuteAdditions(ExecuteReplacements(w, pi, blocks_to_replace, 1), pi, blocks_to_add, 1)

\* _replace_overlapping_blocks: the scan of every candidate against the
\* page as it is when the call starts, then the execution of the result.
ReplaceOverlappingBlocks(w, pi, new_blocks, threshold, exclude_types, target_types) ==
    IF new_blocks = <<>> THEN w
    ELSE LET page == w.pages[pi]
             mark == LogEntry("_execute_block_operations", page.page_id, NoId, NoId, 0)
         IN  ExecuteBlockOperations(
                 World(w.pages, Append(w.oplog, mark)), pi,
                 BlocksToReplace(page, new_blocks, 1, threshold, exclude_types, target_types),
                 BlocksToAdd(page, new_blocks, 1, threshold, exclude_types, target_types))

\* A variant of the detection loop that ends at the first detection whose
\* bbox has not 4 coordinates.
RECURSIVE DetectedBlocksUntilMalformed(_, _, _, _, _)
DetectedBlocksUntilMalformed(detections, k, btype, page_id, base) ==
    IF k > Len(detections) THEN <<>>
    ELSE LET bbox == detections[k].bbox
         IN  IF Len(bbox) # 4 THEN <<>>
             ELSE <<NewBlock(btype, bbox_to_polygon(bbox), page_id, <<>>, base + k)>>
                      \o DetectedBlocksUntilMalformed(detections, k + 1, btype, page_id, base)

\* The blocks built from one list of detections (lines 398-424, 427-451):
\* a detection whose bbox has not 4 coordinates is passed over.
RECURSIVE DetectedBlocks(_, _, _, _, _)
DetectedBlocks(detections, k, btype, page_id, base) ==
    IF k > Len(detections) THEN <<>>
    ELSE LET bbox == detections[k].bbox
             rest == DetectedBlocks(detections, k + 1, btype, page_id, base)
         IN  IF Len(bbox) # 4 THEN rest
             ELSE <<NewBlock(btype, bbox_to_polygon(bbox), page_id, <<>>, base + k)>> \o rest

\* A variant of the iteration whose table pass is not restricted to Table
\* blocks.
MergePageResultAnyTarget(w, pi, page_result) ==
    LET page_id  == w.pages[pi].page_id
        mols     == DetectedBlocks(page_result.molecules, 1, "Molecule", page_id, 0)
        tabs     == DetectedBlocks(page_result.tables, 1, "MoleculeTable", page_id,
                                   Len(page_result.molecules))
        w1       == ReplaceOverlappingBlocks(w, pi, mols, overlap_threshold, {}, {})
    IN  ReplaceOverlappingBlocks(w1, pi, tabs, table_overlap_threshold, {}, {})

\* One iteration of the loop of merge_molecule_blocks_to_pages over a page
\* that exists: the molecule pass, then the table pass.
MergePageResult(w, pi, page_result) ==
    LET page_id  == w.pages[pi].page_id
        mols     == DetectedBlocks(page_result.molecules, 1, "Molecule", page_id, 0)
        tabs     == DetectedBlocks(page_result.tables, 1, "MoleculeTable", page_id,
                                   Len(page_result.molecules))
        w1       == ReplaceOverlappingBlocks(w, pi, mols, overlap_threshold, {}, {})
    IN  ReplaceOverlappingBlocks(w1, pi, tabs, table_overlap_threshold, {}, {"Table"})

\* merge_molecule_blocks_to_pages.  pages[page_idx] is Python indexing: an
\* index at or past len(pages) is skipped by the guard, a negative index
\* counts from the end, and one below -len(pages) raises IndexError, which
\* nothing catches: the call ends there.
RECURSIVE MergeFrom(_, _, _)
MergeFrom(w, results, k) ==
    IF k > Len(results) THEN w
    ELSE LET page_idx == IF Has(results[k], "page_idx") THEN results[k].page_idx ELSE 0
             n        == Len(w.pages)
             w0       == World(w.pages,
                               Append(w.oplog, LogEntry("page_result", page_idx, NoId, NoId, k)))
         IN  IF page_idx >= n THEN MergeFrom(w0, results, k + 1)
             ELSE IF page_idx < 0 - n
                  THEN World(w0.pages,
                             Append(w0.oplog, LogEntry("IndexError", page_idx, NoId, NoId, k)))
             ELSE MergeFrom(
                      MergePageResult(w0, IF page_idx >= 0 THEN page_idx + 1
                                          ELSE n + page_idx + 1, results[k]),
                      results, k + 1)

merge_molecule_blocks_to_pages(w, results) == MergeFrom(w, results, 1)

-----------------------------------------------------------------------------
(* LayoutRuleApplier: LayoutRuleProcessor, and the region rule of OrderProcessor *)

\* InsertBeforeEqual, below, is a variant of the insertion that puts an
\* element before the elements of equal key: a sort that is not stable.

\* sorted(..., key=...) and list.sort(key=...): the stable sort of a
\* sequence of <<key, value>> pairs by key, as insertion after the last
\* element whose key is not greater.
RECURSIVE InsertBeforeEqual(_, _)
InsertBeforeEqual(sorted, x) ==
    IF sorted = <<>> THEN <<x>>
    ELSE LET last == sorted[Len(sorted)]
         IN  IF last[1] < x[1] THEN Append(sorted, x)
             ELSE Append(InsertBeforeEqual(SubSeq(sorted, 1, Len(sorted) - 1), x), last)

RECURSIVE InsertByKey(_, _)
InsertByKey(sorted, x) ==
    IF sorted = <<>> THEN <<x>>
    ELSE LET last == sorted[Len(sorted)]
         IN  IF last[1] <= x[1] THEN Append(sorted, x)
             ELSE Append(InsertByKey(SubSeq(sorted, 1, Len(sorted) - 1), x), last)

RECURSIVE SortPairs(_)
SortPairs(s) ==
    IF s = <<>> THEN <<>>
    ELSE InsertByKey(SortPairs(SubSeq(s, 1, Len(s) - 1)), s[Len(s)])

Values(pairs) == [i \in 1..Len(pairs) |-> pairs[i][2]]

\* blocks sorted by polygon.y_start, ties in their given order
SortByYStart(blocks) ==
    Values(SortPairs([i \in 1..Len(blocks) |-> <<y_start(blocks[i].polygon), blocks[i]>>]))

\* A variant of the reading order that puts a block starting at the centre
\* in the left column.
SortCentreLeft(blocks, layout_type, page_width) ==
    IF layout_type = "two_column"
    THEN LET left_column  == SelectSeq(blocks, LAMBDA b : 2 * x_start(b.polygon) <= page_width)
             right_column == SelectSeq(blocks, LAMBDA b : 2 * x_start(b.polygon) > page_width)
         IN  SortByYStart(left_column) \o SortByYStart(right_column)
    ELSE SortByYStart(blocks)

\* _sort_blocks_in_reading_order (the two classes hold the same code).
sort_blocks_in_reading_order(blocks, layout_type, page_width) ==
    IF layout_type = "two_column"
    THEN LET left_column  == SelectSeq(blocks, LAMBDA b : 2 * x_start(b.polygon) < page_width)
             right_column == SelectSeq(blocks, LAMBDA b : 2 * x_start(b.polygon) >= page_width)
         IN  SortByYStart(left_column) \o SortByYStart(right_column)
    ELSE SortByYStart(blocks)

Ids(blocks) == [i \in 1..Len(blocks) |-> BlockId(blocks[i])]

\* What a call leaves: the pages, and the exception it raised or "None".
Outcome(ps, raised) == [pages |-> ps, raised |-> raised]

\* region_map is built with region['name'] for every region of the rule: a
\* region record without a name raises KeyError (layout_rules.py line 76,
\* order.py line 50).
RegionMapRaises(rule) ==
    /\ Has(rule, "regions")
    /\ \E i \in 1..Len(rule.regions) : ~Has(rule.regions[i], "name")

\* region_map: the last region of each name.
RegionNamed(regions, name) ==
    LET I == {i \in 1..Len(regions) : regions[i].name = name}
    IN  IF I = {} THEN [found |-> FALSE]
        ELSE [found |-> TRUE, def |-> regions[CHOOSE i \in I : \A j \in I : j <= i]]

\* A variant of the region test that excludes the bounds.
RegionBlocksStrict(all_blocks, page, region_def) ==
    LET ys == IF Has(region_def, "y_start_percent") THEN region_def.y_start_percent ELSE 0
        ye == IF Has(region_def, "y_end_percent") THEN region_def.y_end_percent ELSE 100
        lt == IF Has(region_def, "layout_type") THEN region_def.layout_type
              ELSE "single_column"
        ph == height(page.polygon)
        in_region == SelectSeq(all_blocks, LAMBDA b :
                         /\ 100 * y_start(b.polygon) > ph * ys
                         /\ 100 * y_end(b.polygon) < ph * ye)
    IN  sort_blocks_in_reading_order(in_region, lt, width(page.polygon))

\* The blocks of one region, sorted: both edges within the region's bounds,
\* which are percentages of the page height.
RegionBlocks(all_blocks, page, region_def) ==
    LET ys == IF Has(region_def, "y_start_percent") THEN region_def.y_start_percent ELSE 0
        ye == IF Has(region_def, "y_end_percent") THEN region_def.y_end_percent ELSE 100
        lt == IF Has(region_def, "layout_type") THEN region_def.layout_type
              ELSE "single_column"
        ph == height(page.polygon)
        in_region == SelectSeq(all_blocks, LAMBDA b :
                         /\ 100 * y_start(b.polygon) >= ph * ys
                         /\ 100 * y_end(b.polygon) <= ph * ye)
    IN  sort_blocks_in_reading_order(in_region, lt, width(page.polygon))

\* The loop over region_order: the new structure before the leftovers.
RECURSIVE RegionStructure(_, _, _, _, _)
RegionStructure(all_blocks, page, regions, region_order, k) ==
    IF k > Len(region_order) THEN <<>>
    ELSE LET r    == RegionNamed(regions, region_order[k])
             rest == RegionStructure(all_blocks, page, regions, region_order, k + 1)
         IN  IF ~r.found THEN rest
             ELSE Ids(RegionBlocks(all_blocks, page, r.def)) \o rest

\* The ids of a set, listed in any order and then sorted by y_start: a set
\* has no order of its own, so blocks of equal y_start come out in any order.
SortedListings(ps, ids) ==
    {s \in [1..Cardinality(ids) -> ids] :
        /\ \A i, j \in 1..Cardinality(ids) : i # j => s[i] # s[j]
        /\ \A i, j \in 1..Cardinality(ids) :
               i < j => y_start(get_block(ps, s[i]).polygon)
                            <= y_start(get_block(ps, s[j]).polygon)}

\* The structures apply_define_regions_rule can write (layout_rules.py
\* lines 72-103, order.py lines 46-75).
RegionOrderings(page, ps, rule) ==
    LET all_blocks    == [i \in 1..Len(page.structure) |-> get_block(ps, page.structure[i])]
        regions       == IF Has(rule, "regions") THEN rule.regions ELSE <<>>
        region_order  == IF Has(rule, "region_order") THEN rule.region_order ELSE <<>>
        new_structure == RegionStructure(all_blocks, page, regions, region_order, 1)
        non_region    == Range(page.structure) \ Range(new_structure)
    IN  {new_structure \o tail : tail \in SortedListings(ps, non_region)}

RulePages(rule) == IF Has(rule, "pages") THEN Range(rule.pages) ELSE {}
RuleType(rule) == IF Has(rule, "type") THEN rule.type ELSE "None"

\* A variant of the layout rule without the test of the pages list.
DefineRegionsOnEveryPage(page, ps, rule) ==
    {[page EXCEPT !.structure = s,
                  !.layout_rules_applied = Append(@, "define_regions")] :
        s \in RegionOrderings(page, ps, rule)}

\* LayoutRuleProcessor.apply_define_regions_rule: the pages it can leave.
LayoutRule_apply_define_regions_rule(page, ps, rule) ==
    IF page.page_id \notin RulePages(rule) THEN {page}
    ELSE {[page EXCEPT !.structure = s,
                       !.layout_rules_applied = Append(@, "define_regions")] :
             s \in RegionOrderings(page, ps, rule)}

\* OrderProcessor.apply_define_regions_rule: no page test, no flag.
Order_apply_define_regions_rule(page, ps, rule) ==
    {[page EXCEPT !.structure = s] : s \in RegionOrderings(page, ps, rule)}

\* A variant of the gutter test with inclusive comparisons.
InGutterInclusive(block, position, width_ratio, page_width) ==
    \/ /\ position = "left"
       /\ x_end(block.polygon) * width_ratio[2] <= page_width * width_ratio[1]
    \/ /\ position = "right"
       /\ x_start(block.polygon) * width_ratio[2]
              >= page_width * (width_ratio[2] - width_ratio[1])

\* The test of one block of apply_exclude_gutter_rule (lines 124-127).
InGutter(block, position, width_ratio, page_width) ==
    \/ /\ position = "left"
       /\ x_end(block.polygon) * width_ratio[2] < page_width * width_ratio[1]
    \/ /\ position = "right"
       /\ x_start(block.polygon) * width_ratio[2]
              > page_width * (width_ratio[2] - width_ratio[1])

\* A variant of blocks_to_remove that stops at the first gutter block.
FirstBlockToRemove(page, ps, rule) ==
    LET all == SelectSeq(page.structure, LAMBDA id :
                   InGutter(get_block(ps, id), rule.position, rule.width_ratio,
                            width(page.polygon)))
    IN  IF all = <<>> THEN <<>> ELSE <<all[1]>>

\* blocks_to_remove of apply_exclude_gutter_rule.
BlocksToRemove(page, ps, rule) ==
    SelectSeq(page.structure, LAMBDA id :
        InGutter(get_block(ps, id), rule.position, rule.width_ratio, width(page.polygon)))

\* apply_exclude_gutter_rule.  `not position or not width_ratio` is true of
\* an absent value, of an empty position and of a ratio of 0.
apply_exclude_gutter_rule(page, ps, rule) ==
    IF \/ ~Has(rule, "position") \/ ~Has(rule, "width_ratio")
       \/ rule.position = "" \/ rule.width_ratio[1] = 0
    THEN page
    ELSE remove_structure_items(page, BlocksToRemove(page, ps, rule))

\* A variant of the dispatch in which a rule of unknown type raises.
ApplyRuleStrict(ps, pi, rule) ==
    IF RuleType(rule) = "exclude_gutter"
    THEN {Outcome([ps EXCEPT ![pi] = apply_exclude_gutter_rule(ps[pi], ps, rule)], "None")}
    ELSE IF RuleType(rule) = "define_regions"
    THEN IF ps[pi].page_id \in RulePages(rule) /\ RegionMapRaises(rule)
         THEN {Outcome(ps, "KeyError")}
         ELSE {Outcome([ps EXCEPT ![pi] = p], "None") :
                  p \in LayoutRule_apply_define_regions_rule(ps[pi], ps, rule)}
    ELSE {Outcome(ps, "ValueError")}

\* One rule applied to one page by apply_rules: the outcomes it can have.
\* An outcome is the page list and the exception that left the rule, "None"
\* when it returned.  apply_rules catches nothing.
ApplyRule(ps, pi, rule) ==
    IF RuleType(rule) = "exclude_gutter"
    THEN {Outcome([ps EXCEPT ![pi] = apply_exclude_gutter_rule(ps[pi], ps, rule)], "None")}
    ELSE IF RuleType(rule) = "define_regions"
    THEN IF ps[pi].page_id \in RulePages(rule) /\ RegionMapRaises(rule)
         THEN {Outcome(ps, "KeyError")}
         ELSE {Outcome([ps EXCEPT ![pi] = p], "None") :
                  p \in LayoutRule_apply_define_regions_rule(ps[pi], ps, rule)}
    ELSE {Outcome(ps, "None")}

\* apply_rules: the layout rules in configuration order; an exception ends
\* the loop.
RECURSIVE ApplyRulesFrom(_, _, _, _)
ApplyRulesFrom(P, pi, rules, k) ==
    IF k > Len(rules) THEN P
    ELSE ApplyRulesFrom(UNION {IF o.raised # "None" THEN {o}
                               ELSE ApplyRule(o.pages, pi, rules[k]) : o \in P},
                        pi, rules, k + 1)

apply_rules(P, pi, engine) == ApplyRulesFrom(P, pi, engine.layout, 1)

\* LayoutRuleProcessor.__call__: apply_rules on every page in turn; an
\* exception ends the loop and leaves the call.
RECURSIVE LayoutPagesFrom(_, _, _)
LayoutPagesFrom(P, pi, engine) ==
    IF \A o \in P : pi > Len(o.pages) THEN P
    ELSE LayoutPagesFrom(apply_rules(P, pi, engine), pi + 1, engine)

LayoutRuleProcessor(ps, engine) == LayoutPagesFrom({Outcome(ps, "None")}, 1, engine)

-----------------------------------------------------------------------------
(* ReadingOrderResolver: OrderProcessor *)

\* Document.get_prev_block / get_next_block: the neighbour, in the page's
\* structure, of the first occurrence of the block's id; NoId for None.
get_prev_block(structure, id) ==
    LET j == IndexOf(structure, id)
    IN  IF j > 1 THEN structure[j - 1] ELSE NoId

get_next_block(structure, id) ==
    LET j == IndexOf(structure, id)
    IN  IF j < Len(structure) THEN structure[j + 1] ELSE NoId

\* block_idxs is a defaultdict(int): reading a missing key stores 0 for it.
DictGet(d, k) == IF k \in DOMAIN d THEN d[k] ELSE 0
DictPut(d, k, v) == [x \in DOMAIN d \cup {k} |-> IF x = k THEN v ELSE d[x]]

\* The first loop (lines 90-97): twice the mean of the first span's
\* minimum_position and the last span's maximum_position.
RECURSIVE SpanKeys(_, _, _, _)
SpanKeys(ps, structure, d, i) ==
    IF i > Len(structure) THEN d
    ELSE LET spans == get_block(ps, structure[i]).spans
         IN  IF Len(spans) = 0 THEN SpanKeys(ps, structure, d, i + 1)
             ELSE SpanKeys(ps, structure,
                           DictPut(d, structure[i],
                                   spans[1].minimum_position
                                       + spans[Len(spans)].maximum_position),
                           i + 1)

\* while prev_block and prev_block.id not in block_idxs (lines 112-114)
RECURSIVE WalkBack(_, _, _, _)
WalkBack(structure, d, prev, add) ==
    IF prev = NoId \/ prev \in DOMAIN d THEN [id |-> prev, add |-> add]
    ELSE WalkBack(structure, d, get_prev_block(structure, prev), add + 1)

\* while next_block and next_block.id not in block_idxs (lines 118-120);
\* with an id listed twice the walk can come back to a block it left, and
\* then it never ends: hang.
RECURSIVE WalkForward(_, _, _, _, _)
WalkForward(structure, d, next, add, fuel) ==
    IF next = NoId \/ next \in DOMAIN d THEN [id |-> next, add |-> add, hang |-> FALSE]
    ELSE IF fuel = 0 THEN [id |-> NoId, add |-> add, hang |-> TRUE]
    ELSE WalkForward(structure, d, get_next_block(structure, next), add - 1, fuel - 1)

\* The second loop (lines 99-127) from position i on; keys are doubled, so
\* a step counts 2.
RECURSIVE Interpolate(_, _, _)
Interpolate(structure, d, i) ==
    IF i > Len(structure) THEN [idxs |-> d, hang |-> FALSE]
    ELSE LET id == structure[i]
             d1 == DictPut(d, id, DictGet(d, id))
         IN  IF d1[id] > 0 THEN Interpolate(structure, d1, i + 1)
             ELSE LET p0   == get_prev_block(structure, id)
                      back == WalkBack(structure, d1, p0, IF p0 # NoId THEN 1 ELSE 0)
                      fwd  == WalkForward(structure, d1, get_next_block(structure, id),
                                          -1, Len(structure))
                  IN  IF back.id # NoId
                      THEN Interpolate(structure,
                                       DictPut(d1, id, d1[back.id] + 2 * back.add), i + 1)
                      ELSE IF fwd.hang THEN [idxs |-> d1, hang |-> TRUE]
                      ELSE IF fwd.id = NoId THEN Interpolate(structure, d1, i + 1)
                      ELSE Interpolate(structure,
                                       DictPut(d1, id, d1[fwd.id] + 2 * fwd.add), i + 1)

\* block_idxs of one page when the sort runs.
BlockIdxs(page, ps) ==
    Interpolate(page.structure, SpanKeys(ps, page.structure, <<>>, 1), 1)

\* Variants of the final sort: one that keeps only the ids with a positive
\* key, and one that sorts by descending key.
SortKeyedOnly(structure, d) ==
    Values(SortPairs(SelectSeq([i \in 1..Len(structure) |->
                                   <<DictGet(d, structure[i]), structure[i]>>],
                               LAMBDA kv : kv[1] > 0)))

SortByIdxDescending(structure, d) ==
    Values(SortPairs([i \in 1..Len(structure) |-> <<0 - DictGet(d, structure[i]), structure[i]>>]))

\* sorted(page.structure, key=lambda x: block_idxs[x]) (line 129)
SortByIdx(structure, d) ==
    Values(SortPairs([i \in 1..Len(structure) |-> <<DictGet(d, structure[i]), structure[i]>>]))

\* A variant of the page loop body without the two skips.
OrderPageAlways(page, ps) ==
    [page EXCEPT !.structure = SortByIdx(@, BlockIdxs(page, ps).idxs)]

\* The body of the page loop of apply_default_ordering.
OrderPage(page, ps) ==
    IF page.text_extraction_method # "pdftext" \/ ~page.layout_sliced THEN page
    ELSE [page EXCEPT !.structure = SortByIdx(@, BlockIdxs(page, ps).idxs)]

\* apply_default_ordering(page, document): the loop variable shadows the
\* parameter, so every page of the document is ordered, whichever page the
\* caller passed.  The result holds the pages and whether the call hangs.
RECURSIVE DefaultOrderingFrom(_, _)
DefaultOrderingFrom(ps, i) ==
    IF i > Len(ps) THEN [pages |-> ps, hang |-> FALSE]
    ELSE IF /\ ps[i].text_extraction_method = "pdftext" /\ ps[i].layout_sliced
            /\ BlockIdxs(ps[i], ps).hang
         THEN [pages |-> ps, hang |-> TRUE]
    ELSE DefaultOrderingFrom([ps EXCEPT ![i] = OrderPage(ps[i], ps)], i + 1)

apply_default_ordering(page, ps) == DefaultOrderingFrom(ps, 1)

\* regions_rule: the first block_ordering rule of type define_regions.
RegionsRule(engine) ==
    LET I == {i \in 1..Len(engine.block_ordering) :
                 RuleType(engine.block_ordering[i]) = "define_regions"}
    IN  IF I = {} THEN [found |-> FALSE]
        ELSE [found |-> TRUE,
              rule  |-> engine.block_ordering[CHOOSE i \in I : \A j \in I : i <= j]]

RegionsEntry(before, page) ==
    [op |-> "apply_define_regions_rule", page_id |-> page.page_id,
     before |-> before.structure, structure |-> page.structure]

\* One iteration of the page loop of OrderProcessor.__call__ on one world:
\* the worlds it can leave.  A world that hangs, or that an exception left,
\* stays as it is.
OrderStep(w, i, engine) ==
    LET r == RegionsRule(engine)
    IN  IF w.hang \/ w.raised # "None" THEN {w}
        ELSE IF r.found /\ w.pages[i].page_id \in RulePages(r.rule)
        THEN IF RegionMapRaises(r.rule)
             THEN {[w EXCEPT !.raised = "KeyError"]}
             ELSE {[pages  |-> [w.pages EXCEPT ![i] = p],
                    oplog  |-> Append(w.oplog, RegionsEntry(w.pages[i], p)),
                    hang   |-> FALSE,
                    raised |-> "None"] :
                      p \in Order_apply_define_regions_rule(w.pages[i], w.pages, r.rule)}
        ELSE LET res == apply_default_ordering(w.pages[i], w.pages)
             IN  {[pages |-> res.pages, oplog |-> w.oplog, hang |-> res.hang,
                   raised |-> "None"]}

RECURSIVE OrderPagesFrom(_, _, _)
OrderPagesFrom(W, i, engine) ==
    IF \A w \in W : i > Len(w.pages) THEN W
    ELSE OrderPagesFrom(UNION {OrderStep(w, i, engine) : w \in W}, i + 1, engine)

\* OrderProcessor.__call__
OrderProcessor(ps, log, engine) ==
    OrderPagesFrom({[pages |-> ps, oplog |-> log, hang |-> FALSE, raised |-> "None"]},
                   1, engine)

-----------------------------------------------------------------------------
(* Inputs of the merger *)

ExistingTypes == {"Text", "Table"}
ExistingBoxes == {<<0, 0, 10, 1>>, <<2, 0, 12, 1>>, <<0, 0, 20, 1>>}
CandidateBoxes == {<<0, 0, 10, 1>>, <<1, 0, 11, 1>>}
ThresholdPool == {overlap_threshold, <<4, 5>>}
PageWidth == 800
PageHeight == 1000

ExistingBlocks ==
    {NewBlock(t, bbox_to_polygon(b), 0, <<>>, 0) : t \in ExistingTypes, b \in ExistingBoxes}

\* The pages of a direct call: children in any order of boxes and types;
\* structure lists them in child order or in the reverse order.
MergerPages ==
    UNION {{BuiltPage(NewPage(0, PageWidth, PageHeight), kids, order) :
               order \in {[i \in 1..Len(kids) |-> i],
                          [i \in 1..Len(kids) |-> Len(kids) + 1 - i]}} :
           kids \in SeqsUpTo(ExistingBlocks, MaxExisting)}

\* The pages handed to merge_molecule_blocks_to_pages.
LayoutBlocks ==
    {NewBlock("Text", bbox_to_polygon(<<0, 0, 10, 1>>), 0, <<>>, 0),
     NewBlock("Table", bbox_to_polygon(<<0, 0, 10, 1>>), 0, <<>>, 0),
     NewBlock("Table", bbox_to_polygon(<<2, 0, 12, 1>>), 0, <<>>, 0)}

LayoutPages ==
    {BuiltPage(NewPage(0, PageWidth, PageHeight), kids, [i \in 1..Len(kids) |-> i]) :
        kids \in SeqsUpTo(LayoutBlocks, MaxExisting)}

NoRules == [layout |-> <<>>, block_ordering |-> <<>>]
NoCall == [new_blocks |-> <<>>, threshold |-> overlap_threshold,
           exclude_types |-> {}, target_types |-> {}]

\* The candidate lists of a direct call: one to MaxCands blocks.
CandidateLists ==
    UNION {{[k \in 1..n |-> NewBlock("Molecule", bbox_to_polygon(bs[k]), 0, <<>>, k)] :
               bs \in [1..n -> CandidateBoxes]} : n \in 1..MaxCands}

CallPool ==
    [new_blocks : CandidateLists, threshold : ThresholdPool,
     exclude_types : {{}, {"Text"}}, target_types : {{}, {"Table"}}]

\* The detector's payload: records with at least one detection each,
\* holding at most MaxCands detections between them.  A record's page_idx
\* is the page, one past the last page, or -1.
MoleculeDetections == {[bbox |-> <<0, 0, 10, 1>>], [bbox |-> <<0, 0, 10>>]}
TableDetections ==
    {[bbox |-> <<0, 0, 10, 1>>], [bbox |-> <<1, 0, 11, 1>>], [bbox |-> <<1, 0, 11>>]}
PageIdxPool == {-1, 0, 1}

RecordPool ==
    {r \in [page_idx : PageIdxPool,
            molecules : SeqsUpTo(MoleculeDetections, MaxCands),
            tables : SeqsUpTo(TableDetections, MaxCands)] :
        Len(r.molecules) + Len(r.tables) \in 1..MaxCands}

RecordSize(r) == Len(r.molecules) + Len(r.tables)

RECURSIVE ResultsWithin(_)
ResultsWithin(budget) ==
    {<<>>} \cup
    UNION {{<<r>> \o rest : rest \in ResultsWithin(budget - RecordSize(r))} :
           r \in {q \in RecordPool : RecordSize(q) <= budget}}

DetectionResultsPool == ResultsWithin(MaxCands) \ {<<>>}

-----------------------------------------------------------------------------
(* The Gemini service before any call *)

GeminiModel == {"gemini-2.5-pro", "gemini-2.5-flash"}

\* The module as imported: empty deques, the lock free, no thread calling.
ServiceIdle ==
    /\ clock = 0
    /\ REQUEST_TIMESTAMPS = [m \in GeminiModel |-> <<>>]
    /\ RATE_LIMIT_LOCK = 0
    /\ threads = <<>>
    /\ sent = <<>>

-----------------------------------------------------------------------------
(* BaseGeminiService.__call__ as a state machine, one process per thread *)

MaxThreads == 2
MaxRetries == 2
MaxTicks == 3
\* time.time() is read with a finite resolution: two readings taken within
\* one step of the clock are equal.
ClockStep == 30
WindowSeconds == 60

Thread == 1..MaxThreads

MODEL_LIMITS(model) ==
    IF model = "gemini-2.5-pro" THEN 5 ELSE 10

\* while request_history and current_time - request_history[0] > 60: popleft()
RECURSIVE PopOlder(_, _)
PopOlder(request_history, current_time) ==
    IF request_history # <<>> /\ current_time - Head(request_history) > WindowSeconds
    THEN PopOlder(Tail(request_history), current_time)
    ELSE request_history

WaitTime(request_history, current_time) ==
    WindowSeconds - (current_time - Head(request_history))

total_tries_extra(max_retries) == max_retries + 2

total_tries(max_retries) == max_retries + 1

Ok == [kind |-> "ok", code |-> 200]
ApiError(code) == [kind |-> "APIError", code |-> code]
OtherException == [kind |-> "Exception", code |-> 0]

\* What one generate_content request can come back with: a parsed answer,
\* an APIError with some code, or any other exception.
Responses == {Ok, ApiError(429), ApiError(443), ApiError(503), ApiError(400), OtherException}

IsTransient(response) ==
    response.kind = "APIError" /\ response.code \in {429, 443, 503}

RetryWaitTimes == {1, ClockStep}

NoResponse == [kind |-> "none", code |-> 0]

\* A thread entering __call__: `tries` is the loop variable, `response` what
\* the latest request came back with (the exception is gone once its except
\* block is left), `sent_at` when that request was sent, `wait_time` the
\* latest backoff and `wake_at` the end of the current sleep.  The timing
\* locals are dropped when the call returns.
Caller(model, max_retries, retry_wait_time) ==
    [pc |-> "acquire", model |-> model, max_retries |-> max_retries,
     retry_wait_time |-> retry_wait_time, tries |-> 0, response |-> NoResponse,
     wait_time |-> 0, sent_at |-> 0, wake_at |-> 0, result |-> "none"]

Repeat(x, n) == [i \in 1..n |-> x]

\* The requests the process has already served when the threads arrive: old
\* requests recorded at clock 0 and recent ones recorded at clock ClockStep,
\* each admitted below the limit and answered at its first attempt; one
\* model at most has been called before.
EarlierRequests(model) ==
    {Repeat(0, old) \o Repeat(ClockStep, MODEL_LIMITS(model) - 1) : old \in {0, 1}}

InitService(callers) ==
    /\ pages = <<>>
    /\ oplog = <<>>
    /\ rule_engine = NoRules
    /\ detection_results = <<>>
    /\ call_args = NoCall
    /\ pages0 = <<>>
    /\ pc = "done"
    /\ clock = ClockStep
    /\ \/ REQUEST_TIMESTAMPS = [m \in GeminiModel |-> <<>>]
       \/ \E busy \in GeminiModel :
             \E earlier \in EarlierRequests(busy) :
                REQUEST_TIMESTAMPS = [m \in GeminiModel |-> IF m = busy THEN earlier ELSE <<>>]
    /\ RATE_LIMIT_LOCK = 0
    /\ \E retry_wait_time \in RetryWaitTimes, max_retries \in 0..MaxRetries :
          threads \in [callers -> {Caller(m, max_retries, retry_wait_time) : m \in GeminiModel}]
    /\ sent = [m \in GeminiModel |-> [admitted |-> REQUEST_TIMESTAMPS[m],
                                      requests |-> REQUEST_TIMESTAMPS[m]]]

\* Lines 77-96 up to the sleep: the thread takes the lock, drops the
\* timestamps older than the window, and either records its request and
\* leaves the lock, or goes to sleep inside the with block.
RateLimit(t) ==
    /\ threads[t].pc = "acquire"
    /\ RATE_LIMIT_LOCK = 0
    /\ LET model_name == threads[t].model
           rpm_limit == MODEL_LIMITS(model_name)
           current_time == clock
           request_history == PopOlder(REQUEST_TIMESTAMPS[model_name], current_time)
           sleeps == /\ Len(request_history) >= rpm_limit
                     /\ WaitTime(request_history, current_time) > 0
       IN IF sleeps
          THEN /\ REQUEST_TIMESTAMPS' = [REQUEST_TIMESTAMPS EXCEPT ![model_name] = request_history]
               /\ RATE_LIMIT_LOCK' = t
               /\ threads' = [threads EXCEPT ![t].pc = "rate_sleep",
                                 ![t].wake_at = current_time + WaitTime(request_history, current_time)]
               /\ UNCHANGED sent
          ELSE /\ REQUEST_TIMESTAMPS' = [REQUEST_TIMESTAMPS EXCEPT
                                            ![model_name] = Append(request_history, clock)]
               /\ RATE_LIMIT_LOCK' = 0
               /\ threads' = [threads EXCEPT ![t].pc = "attempt", ![t].tries = 1]
               /\ sent' = [sent EXCEPT ![model_name].admitted = Append(@, clock)]
    /\ UNCHANGED clock
    /\ UNCHANGED document_vars

\* Lines 93-96: time.sleep(wait_time) returns, the thread records its
\* request at the time it reads then, and the with block releases the lock.
RateWake(t) ==
    /\ threads[t].pc = "rate_sleep"
    /\ clock >= threads[t].wake_at
    /\ LET model_name == threads[t].model
       IN /\ REQUEST_TIMESTAMPS' = [REQUEST_TIMESTAMPS EXCEPT ![model_name] = Append(@, clock)]
          /\ sent' = [sent EXCEPT ![model_name].admitted = Append(@, clock)]
    /\ RATE_LIMIT_LOCK' = 0
    /\ threads' = [threads EXCEPT ![t].pc = "attempt", ![t].tries = 1]
    /\ UNCHANGED clock
    /\ UNCHANGED document_vars

\* Lines 102-146, one turn of the loop: the request is sent and comes back.
Attempt(t) ==
    /\ threads[t].pc = "attempt"
    /\ \E response \in Responses :
          LET tries == threads[t].tries
              seen == [threads[t] EXCEPT !.response = response, !.sent_at = clock]
              over == [threads[t] EXCEPT !.response = response, !.pc = "returned",
                                         !.wait_time = 0, !.sent_at = 0, !.wake_at = 0]
          IN threads' = [threads EXCEPT ![t] =
                 IF response.kind = "ok"
                 THEN [over EXCEPT !.result = "json"]
                 ELSE IF IsTransient(response) /\ tries # total_tries(threads[t].max_retries)
                 THEN LET wait_time == tries * threads[t].retry_wait_time
                      IN [seen EXCEPT !.pc = "retry_sleep",
                                      !.wait_time = wait_time,
                                      !.wake_at = clock + wait_time]
                 ELSE [over EXCEPT !.result = "{}"]]
    /\ sent' = [sent EXCEPT ![threads[t].model].requests = Append(@, clock)]
    /\ UNCHANGED <<clock, REQUEST_TIMESTAMPS, RATE_LIMIT_LOCK>>
    /\ UNCHANGED document_vars

\* Line 137 returns and the loop takes its next turn.
RetryWake(t) ==
    /\ threads[t].pc = "retry_sleep"
    /\ clock >= threads[t].wake_at
    /\ threads' = [threads EXCEPT ![t].pc = "attempt", ![t].tries = @ + 1,
                                  ![t].response = NoResponse]
    /\ UNCHANGED <<clock, REQUEST_TIMESTAMPS, RATE_LIMIT_LOCK, sent>>
    /\ UNCHANGED document_vars

\* The clock moves on by one step of its resolution.
Tick ==
    /\ clock < ClockStep * MaxTicks
    /\ clock' = clock + ClockStep
    /\ UNCHANGED <<REQUEST_TIMESTAMPS, RATE_LIMIT_LOCK, threads, sent>>
    /\ UNCHANGED document_vars

NextGemini ==
    \/ \E t \in DOMAIN threads : RateLimit(t)
    \/ \E t \in DOMAIN threads : RateWake(t)
    \/ \E t \in DOMAIN threads : Attempt(t)
    \/ \E t \in DOMAIN threads : RetryWake(t)
    \/ Tick

\* Every thread calls the service once, in any interleaving.
InitGemini == InitService(Thread)

SpecGemini == InitGemini /\ [][NextGemini]_vars

\* The service called from one thread: the loop of lines 101-146 works on
\* the locals of its call alone.
InitRetry == InitService({1})

SpecRetry == InitRetry /\ [][NextGemini]_vars

-----------------------------------------------------------------------------
(* The merger as a state machine *)

InitMerger ==
    /\ ServiceIdle
    /\ oplog = <<>>
    /\ rule_engine = NoRules
    /\ \/ /\ pages \in {<<p>> : p \in MergerPages}
          /\ call_args \in CallPool
          /\ detection_results = <<>>
          /\ pc = "replace"
       \/ /\ pages \in {<<p>> : p \in LayoutPages}
          /\ call_args = NoCall
          /\ detection_results \in DetectionResultsPool
          /\ pc = "merge"
    /\ pages0 = pages

\* One call of _replace_overlapping_blocks on the page.
ReplaceCall ==
    /\ pc = "replace"
    /\ LET w == ReplaceOverlappingBlocks(World(pages, oplog), 1, call_args.new_blocks,
                    call_args.threshold, call_args.exclude_types, call_args.target_types)
       IN  /\ pages' = w.pages
           /\ oplog' = w.oplog
    /\ pages0' = pages
    /\ pc' = "done"
    /\ UNCHANGED <<rule_engine, detection_results, call_args>>
    /\ UNCHANGED service_vars

\* One call of merge_molecule_blocks_to_pages with the detector's payload.
MergeCall ==
    /\ pc = "merge"
    /\ LET w == merge_molecule_blocks_to_pages(World(pages, oplog), detection_results)
       IN  /\ pages' = w.pages
           /\ oplog' = w.oplog
    /\ pages0' = pages
    /\ pc' = "done"
    /\ UNCHANGED <<rule_engine, detection_results, call_args>>
    /\ UNCHANGED service_vars

NextMerger == ReplaceCall \/ MergeCall

SpecMerger == InitMerger /\ [][NextMerger]_vars

-----------------------------------------------------------------------------
(* The processors as a state machine *)

CallEntry(name) == LogEntry(name, 0, NoId, NoId, 0)
IsCall(e) == e.op \in {"LayoutRuleProcessor", "OrderProcessor", "apply_default_ordering"}
Calls == SelectSeq(oplog, IsCall)
LastCall == IF Calls = <<>> THEN "None" ELSE Calls[Len(Calls)].op

\* One run of LayoutRuleProcessor over the document.  An exception that
\* leaves the processor ends the processing pass.
LayoutCall ==
    /\ pc = "layout"
    /\ Len(Calls) < MaxCalls
    /\ \E o \in LayoutRuleProcessor(pages, rule_engine) :
           /\ pages' = o.pages
           /\ pc' = IF o.raised # "None" THEN "raised" ELSE pc
    /\ pages0' = pages
    /\ oplog' = Append(oplog, CallEntry("LayoutRuleProcessor"))
    /\ UNCHANGED <<rule_engine, detection_results, call_args>>
    /\ UNCHANGED service_vars

\* One run of OrderProcessor over the document; it comes after the layout
\* rules.  A run that hangs leaves the pages as the hang found them.
OrderCall ==
    /\ pc \in {"layout", "order"}
    /\ Len(Calls) < MaxCalls
    /\ \E w \in OrderProcessor(pages, Append(oplog, CallEntry("OrderProcessor")),
                               rule_engine) :
           /\ pages' = w.pages
           /\ oplog' = w.oplog
           /\ pc' = IF w.hang THEN "hang"
                    ELSE IF w.raised # "None" THEN "raised" ELSE "order"
    /\ pages0' = pages
    /\ UNCHANGED <<rule_engine, detection_results, call_args>>
    /\ UNCHANGED service_vars

(* exclude_gutter on one page *)

TextBlock(bbox, spans) == NewBlock("Text", bbox_to_polygon(bbox), 0, spans, 0)

GutterBlocks ==
    {TextBlock(<<x[1], 100, x[2], 200>>, <<>>) :
        x \in {<<10, 70>>, <<10, 80>>, <<10, 90>>, <<730, 790>>, <<720, 790>>}}

GutterPages ==
    {BuiltPage(NewPage(0, PageWidth, PageHeight), kids, [i \in 1..Len(kids) |-> i]) :
        kids \in SeqsUpTo(GutterBlocks, MaxExisting)}

\* exclude_gutter rules: position and width_ratio present or not, valid or not.
GutterRules ==
    LET base == [type |-> "exclude_gutter"]
        P == {"left", "right", "top"}
        R == {<<0, 10>>, <<1, 10>>, <<10, 10>>, <<15, 10>>, <<-1, 10>>}
    IN  {base}
        \cup {[type |-> "exclude_gutter", position |-> p] : p \in P}
        \cup {[type |-> "exclude_gutter", width_ratio |-> r] : r \in R}
        \cup {[type |-> "exclude_gutter", position |-> p, width_ratio |-> r] :
                 p \in P, r \in R}

InitGutter ==
    /\ ServiceIdle
    /\ pages \in {<<p>> : p \in GutterPages}
    /\ pages0 = pages
    /\ oplog = <<>>
    /\ rule_engine \in {[layout |-> <<r>>, block_ordering |-> <<>>] : r \in GutterRules}
    /\ detection_results = <<>>
    /\ call_args = NoCall
    /\ pc = "layout"

NextGutter == LayoutCall

SpecGutter == InitGutter /\ [][NextGutter]_vars

(* define_regions and the default order on a document *)

Span(lo, hi) == [minimum_position |-> lo, maximum_position |-> hi]

\* A block at the top of the page that comes late in the source, one lower
\* on the page that comes early, and a picture with no span.
TopLate == TextBlock(<<100, 100, 300, 150>>, <<Span(30, 30)>>)
LowEarly == TextBlock(<<100, 500, 300, 550>>, <<Span(5, 8), Span(9, 15)>>)
LowPicture == NewBlock("Picture", bbox_to_polygon(<<100, 500, 300, 550>>), 0, <<>>, 0)

OrderPageContents ==
    {<<TopLate, LowEarly>>, <<LowEarly, TopLate>>, <<TopLate, LowPicture>>,
     <<LowPicture, LowEarly>>, <<TopLate, LowPicture, LowEarly>>, <<LowEarly>>}

OrderDocuments ==
    UNION {{[i \in 1..n |->
                BuiltPage(NewPage(i - 1, PageWidth, PageHeight), kids[i],
                          [j \in 1..Len(kids[i]) |-> j])] :
               kids \in [1..n -> OrderPageContents]} :
           n \in 1..MaxPages}

HeaderBodyRegions ==
    <<[name |-> "header", y_start_percent |-> 0, y_end_percent |-> 20,
       layout_type |-> "single_column"],
      [name |-> "body", y_start_percent |-> 20, y_end_percent |-> 100,
       layout_type |-> "two_column"]>>

RegionsRuleFor(page_ids) ==
    [type |-> "define_regions", pages |-> page_ids, regions |-> HeaderBodyRegions,
     region_order |-> <<"header", "body">>]

\* the rule lists the first page, the last page or every page
PageLists(n) == {<<0>>, <<n - 1>>, [i \in 1..n |-> i - 1]}

OrderEngines(n) ==
    {[layout |-> l, block_ordering |-> b] :
        l \in {<<>>} \cup {<<RegionsRuleFor(s)>> : s \in PageLists(n)},
        b \in {<<>>} \cup {<<RegionsRuleFor(s)>> : s \in PageLists(n)}}

InitOrder ==
    /\ ServiceIdle
    /\ pages \in OrderDocuments
    /\ pages0 = pages
    /\ oplog = <<>>
    /\ rule_engine \in OrderEngines(Len(pages))
    /\ detection_results = <<>>
    /\ call_args = NoCall
    /\ pc = "layout"

NextOrder == LayoutCall \/ OrderCall

SpecOrder == InitOrder /\ [][NextOrder]_vars

(* define_regions on pages with columns, a header and boundary blocks *)

\* A header filling the band 0..200 exactly, blocks of the left and of the
\* right column of the body, one starting at the horizontal centre, and two
\* blocks that span the boundary between header and body at the same height.
RegHeader == TextBlock(<<10, 0, 300, 200>>, <<>>)
RegLeft == TextBlock(<<10, 300, 390, 350>>, <<>>)
RegRight == TextBlock(<<420, 250, 790, 300>>, <<>>)
RegCenter == TextBlock(<<400, 220, 790, 240>>, <<>>)
RegSpanA == TextBlock(<<10, 150, 300, 250>>, <<>>)
RegSpanB == TextBlock(<<410, 150, 700, 260>>, <<>>)

RegionPageContents ==
    {<<RegLeft, RegRight>>,
     <<RegLeft, RegCenter, RegHeader>>,
     <<RegSpanA, RegLeft, RegHeader>>,
     <<RegSpanB, RegRight, RegSpanA>>}

RegionDocuments ==
    UNION {{[i \in 1..n |->
                BuiltPage(NewPage(i - 1, PageWidth, PageHeight), kids[i],
                          [j \in 1..Len(kids[i]) |-> j])] :
               kids \in [1..n -> RegionPageContents]} :
           n \in 1..MaxPages}

\* One region covering the whole page, with the layout type given or not.
WholePageRegions ==
    {<<[name |-> "all", y_start_percent |-> 0, y_end_percent |-> 100,
        layout_type |-> t]>> : t \in {"two_column", "single_column", "grid"}}
    \cup {<<[name |-> "all"]>>}

\* A region record without a name.
NamelessRegions == <<[y_start_percent |-> 0, y_end_percent |-> 100]>>

\* Header and whole page: a block of the header lies in both regions.
OverlappingRegions ==
    <<HeaderBodyRegions[1],
      [name |-> "all", y_start_percent |-> 0, y_end_percent |-> 100,
       layout_type |-> "single_column"]>>

DefineRegions(page_ids, regions, region_order) ==
    [type |-> "define_regions", pages |-> page_ids, regions |-> regions,
     region_order |-> region_order]

WellFormedRegionRules(n) ==
    {DefineRegions(s, HeaderBodyRegions, o) :
        s \in PageLists(n),
        o \in {<<"header", "body">>, <<"body", "header">>,
               <<"header", "footer", "body">>}}
    \cup {DefineRegions(s, r, <<"all">>) : s \in PageLists(n), r \in WholePageRegions}
    \cup {DefineRegions(<<0>>, OverlappingRegions, <<"header", "all">>)}

MalformedRegionRules(n) ==
    {DefineRegions(s, NamelessRegions, <<"all">>) : s \in PageLists(n)}

\* Rules of a type apply_rules does not know, and a rule without a type.
UnknownRules == {[type |-> "rotate", pages |-> <<0>>], [pages |-> <<0>>]}

RegionEngines(n) ==
    {[layout |-> <<r>>, block_ordering |-> <<>>] : r \in WellFormedRegionRules(n)}
    \cup {[layout |-> <<>>, block_ordering |-> <<r>>] : r \in WellFormedRegionRules(n)}
    \cup {[layout |-> l, block_ordering |-> <<>>] :
             l \in UNION {{<<bad>>, <<bad, good>>, <<good, bad>>} :
                             bad \in MalformedRegionRules(n),
                             good \in {RegionsRuleFor(s) : s \in PageLists(n)}}}
    \cup {[layout |-> l, block_ordering |-> <<>>] :
             l \in UNION {{<<u>>, <<u, good>>, <<good, u>>} :
                             u \in UnknownRules,
                             good \in {RegionsRuleFor(s) : s \in PageLists(n)}}}

InitRegions ==
    /\ ServiceIdle
    /\ pages \in RegionDocuments
    /\ pages0 = pages
    /\ oplog = <<>>
    /\ rule_engine \in RegionEngines(Len(pages))
    /\ detection_results = <<>>
    /\ call_args = NoCall
    /\ pc = "layout"

NextRegions == LayoutCall \/ OrderCall

SpecRegions == InitRegions /\ [][NextRegions]_vars

(* apply_default_ordering on a document *)

\* One call of OrderProcessor.apply_default_ordering(page, document), for
\* any page of the document.
DefaultOrderingCall ==
    /\ pc = "default"
    /\ Len(Calls) < MaxCalls
    /\ \E i \in 1..Len(pages) :
           LET res == apply_default_ordering(pages[i], pages)
           IN  /\ pages' = res.pages
               /\ pc' = IF res.hang THEN "hang" ELSE pc
    /\ pages0' = pages
    /\ oplog' = Append(oplog, CallEntry("apply_default_ordering"))
    /\ UNCHANGED <<rule_engine, detection_results, call_args>>
    /\ UNCHANGED service_vars

\* Text blocks whose spans lie at source positions with midpoint 10, 30,
\* 0, 11 and 10.5, and two pictures without spans.
Mid10 == TextBlock(<<100, 100, 300, 150>>, <<Span(5, 8), Span(9, 15)>>)
Mid30 == TextBlock(<<100, 200, 300, 250>>, <<Span(30, 30)>>)
Mid0 == TextBlock(<<100, 300, 300, 350>>, <<Span(0, 0)>>)
Mid11 == TextBlock(<<100, 400, 300, 450>>, <<Span(11, 11)>>)
MidHalf == TextBlock(<<100, 450, 300, 480>>, <<Span(10, 11)>>)
PictureA == NewBlock("Picture", bbox_to_polygon(<<100, 500, 300, 550>>), 0, <<>>, 0)
PictureB == NewBlock("Picture", bbox_to_polygon(<<100, 600, 300, 650>>), 0, <<>>, 0)

DefaultPageContents ==
    {<<Mid10, PictureA, Mid30>>, <<Mid30, PictureA, Mid10>>,
     <<PictureA, PictureB, Mid30>>, <<PictureA, PictureB>>,
     <<Mid10, Mid0, PictureA>>, <<Mid11, Mid10, PictureA>>,
     <<Mid0, Mid10>>, <<Mid30, Mid10>>, <<Mid10, PictureA, MidHalf, Mid11>>}

\* Pages read from the PDF text and layout-sliced, an OCR page, and a page
\* that was not layout-sliced; the last two hold blocks out of source order.
DefaultPage(page_id, kids, method, sliced) ==
    [BuiltPage(NewPage(page_id, PageWidth, PageHeight), kids, [j \in 1..Len(kids) |-> j])
        EXCEPT !.text_extraction_method = method, !.layout_sliced = sliced]

DefaultPageKinds ==
    {[kids |-> kids, method |-> "pdftext", sliced |-> TRUE] : kids \in DefaultPageContents}
    \cup {[kids |-> <<Mid30, PictureA, Mid10>>, method |-> "surya", sliced |-> TRUE],
          [kids |-> <<Mid30, PictureA, Mid10>>, method |-> "pdftext", sliced |-> FALSE]}

DefaultDocuments ==
    UNION {{[i \in 1..n |-> DefaultPage(i - 1, k[i].kids, k[i].method, k[i].sliced)] :
               k \in [1..n -> DefaultPageKinds]} :
           n \in 1..MaxPages}

InitDefault ==
    /\ ServiceIdle
    /\ pages \in DefaultDocuments
    /\ pages0 = pages
    /\ oplog = <<>>
    /\ rule_engine = NoRules
    /\ detection_results = <<>>
    /\ call_args = NoCall
    /\ pc = "default"

NextDefault == DefaultOrderingCall

SpecDefault == InitDefault /\ [][NextDefault]_vars

-----------------------------------------------------------------------------
(* Properties of the processors *)

\* C1 (as claimed): a run of OrderProcessor leaves the structure of every
\* page that LayoutRuleProcessor flagged as ordered by define_regions as
\* it was.
C1_RuleOrderedPagesKept ==
    LastCall = "OrderProcessor" =>
        \A i \in 1..Len(pages) :
            (\E k \in 1..Len(pages0[i].layout_rules_applied) :
                 pages0[i].layout_rules_applied[k] = "define_regions")
                => pages[i].structure = pages0[i].structure

\* The entries of the latest call: those after its call entry.
LatestEntries ==
    {e \in 1..Len(oplog) : \A c \in e..Len(oplog) : ~IsCall(oplog[c])}

\* C2 (as claimed): when OrderProcessor.__call__ returns, every page the
\* block_ordering define_regions rule lists holds the structure that
\* apply_define_regions_rule gave it during the call.
C2_ListedPagesKeepRegionOrder ==
    (LastCall = "OrderProcessor" /\ pc = "order") =>
        \A e \in LatestEntries :
            oplog[e].op = "apply_define_regions_rule" =>
                pages[PageIndex(pages, oplog[e].page_id)].structure = oplog[e].structure

\* The rule of the gutter specification.
GutterRule == rule_engine.layout[1]

ValidGutterRule(r) ==
    /\ Has(r, "position") /\ r.position \in {"left", "right"}
    /\ Has(r, "width_ratio")
    /\ r.width_ratio[1] > 0 /\ r.width_ratio[1] <= r.width_ratio[2]

\* entirely in the gutter, as the rule's contract words it
EntirelyInGutter(b, r, page_width) ==
    IF r.position = "left"
    THEN x_end(b.polygon) * r.width_ratio[2] < page_width * r.width_ratio[1]
    ELSE x_start(b.polygon) * r.width_ratio[2]
             > page_width * (r.width_ratio[2] - r.width_ratio[1])

\* C8: a run of a valid exclude_gutter rule leaves in structure exactly the
\* ids of the blocks not entirely in the gutter, in their previous order,
\* and every block of the page stays as it was in the Document index.
C8_GutterRemovesExactly ==
    (LastCall = "LayoutRuleProcessor" /\ ValidGutterRule(GutterRule)) =>
        /\ pages[1].structure =
               SelectSeq(pages0[1].structure, LAMBDA id :
                   ~EntirelyInGutter(get_block(pages0, id), GutterRule,
                                     width(pages0[1].polygon)))
        /\ \A k \in 1..Len(pages0[1].children) :
               /\ Resolves(pages, <<0, k>>)
               /\ get_block(pages, <<0, k>>) = pages0[1].children[k]

\* C8 witness: with the left gutter at 80 of 800 the block ending at 70 was
\* removed and the block ending at 80 is still there.
C8_Witness ==
    /\ LastCall = "LayoutRuleProcessor" /\ Len(Calls) = 1
    /\ ValidGutterRule(GutterRule)
    /\ GutterRule.position = "left" /\ GutterRule.width_ratio = <<1, 10>>
    /\ Len(pages[1].children) = 2
    /\ x_end(pages[1].children[1].polygon) = 70
    /\ x_end(pages[1].children[2].polygon) = 80
    /\ pages[1].structure = << <<0, 2>> >>
    /\ Resolves(pages, <<0, 1>>)

\* C9: a second run of the same exclude_gutter rule changes nothing.
C9_GutterIdempotent ==
    (LastCall = "LayoutRuleProcessor" /\ Len(Calls) >= 2) => pages = pages0

\* C9 witness: the rule was run twice on a page from which the first run
\* removed two blocks.
C9_Witness ==
    /\ LastCall = "LayoutRuleProcessor" /\ Len(Calls) >= 2
    /\ Len(pages[1].children) = 2
    /\ pages[1].structure = <<>>

\* C10 (as claimed): an exclude_gutter rule whose position is absent or
\* neither left nor right, or whose width_ratio is absent or outside (0,1],
\* leaves structure unchanged.
C10_InvalidGutterRuleNoOp ==
    (LastCall = "LayoutRuleProcessor" /\ ~ValidGutterRule(GutterRule)) =>
        pages[1].structure = pages0[1].structure

-----------------------------------------------------------------------------
(* Properties of the merger *)

IsReplace(e) == e.op = "replace_block"
IsAdd(e) == e.op = "add_full_block"

\* The pass (_execute_block_operations call) and the detection record an
\* entry of the log belongs to.
PassOf(i) == Cardinality({j \in 1..i : oplog[j].op = "_execute_block_operations"})
RecordOf(i) == Cardinality({j \in 1..i : oplog[j].op = "page_result"})

DirectCallDone == pc = "done" /\ call_args.new_blocks # <<>>
MergeDone == pc = "done" /\ detection_results # <<>>

\* C3 (as claimed): within one pass no candidate is in two replacement
\* pairs and no existing block is the target of two replacement pairs.
C3_OneReplacementPerBlock ==
    \A i, j \in 1..Len(oplog) :
        (i < j /\ IsReplace(oplog[i]) /\ IsReplace(oplog[j]) /\ PassOf(i) = PassOf(j))
            => (oplog[i].old # oplog[j].old /\ oplog[i].obj # oplog[j].obj)

\* A child of the page before the call that the type filters let through
\* and whose overlap fraction with the candidate reaches the threshold.
Qualifies(c, nb, args) ==
    /\ ~c.removed
    /\ c.block_type \notin args.exclude_types
    /\ (args.target_types = {} \/ c.block_type \in args.target_types)
    /\ LET f == intersection_pct(c.polygon, nb.polygon)
       IN  f[1] * args.threshold[2] >= args.threshold[1] * f[2]

QualifyingPositions(k) ==
    {i \in 1..Len(pages0[1].children) :
        Qualifies(pages0[1].children[i], call_args.new_blocks[k], call_args)}

\* C4: after a call of _replace_overlapping_blocks every candidate was
\* placed exactly once: as the replacement of the first child (in child
\* order, after the type filters) whose overlap fraction is >= threshold,
\* or, when no child qualifies, as an addition.
C4_FirstMatchWins ==
    DirectCallDone =>
        \A k \in 1..Len(call_args.new_blocks) :
            LET Q == QualifyingPositions(k)
                E == {e \in 1..Len(oplog) :
                         oplog[e].obj = k /\ (IsReplace(oplog[e]) \/ IsAdd(oplog[e]))}
            IN  /\ Cardinality(E) = 1
                /\ \A e \in E :
                       IF Q = {} THEN IsAdd(oplog[e])
                       ELSE /\ IsReplace(oplog[e])
                            /\ oplog[e].old[2] \in Q
                            /\ \A i \in Q : oplog[e].old[2] <= i

\* C4 witness: a candidate with two qualifying children, the first of them
\* at an overlap fraction equal to the threshold; the first is retired and
\* the later one is still a current child.
C4_Witness ==
    /\ DirectCallDone
    /\ \E k \in 1..Len(call_args.new_blocks) :
           \E i, j \in QualifyingPositions(k) :
               /\ i < j
               /\ \A m \in QualifyingPositions(k) : i <= m
               /\ LET f == intersection_pct(pages0[1].children[i].polygon,
                                            call_args.new_blocks[k].polygon)
                  IN  f[1] * call_args.threshold[2] = call_args.threshold[1] * f[2]
               /\ pages[1].children[i].removed
               /\ ~pages[1].children[j].removed

\* C5 (as claimed): within the merge of one detection record no
\* replacement follows an addition.
C5_RecordReplacesBeforeAdds ==
    \A i, j \in 1..Len(oplog) :
        (i < j /\ RecordOf(i) = RecordOf(j) /\ IsAdd(oplog[i])) => ~IsReplace(oplog[j])

\* C5 (amended): within one pass (one call of _execute_block_operations)
\* no replacement follows an addition.
C5_PassReplacesBeforeAdds ==
    \A i, j \in 1..Len(oplog) :
        (i < j /\ PassOf(i) = PassOf(j) /\ IsAdd(oplog[i])) => ~IsReplace(oplog[j])

\* C5 witness: a merged record one pass of which both replaced and added.
C5_Witness ==
    /\ MergeDone
    /\ \E i, j \in 1..Len(oplog) :
           /\ i < j /\ PassOf(i) = PassOf(j)
           /\ IsReplace(oplog[i]) /\ IsAdd(oplog[j])

\* The additions of the log, in order.
AddedIds == 
    LET adds == SelectSeq(oplog, IsAdd)
    IN  [a \in 1..Len(adds) |-> adds[a].new]

\* C6 (as claimed): after one pass over structure S every replaced target's
\* position holds its candidate's id, the other ids of S keep their
\* position, and the additions follow S in candidate order.
C6_PassFrameEffect ==
    DirectCallDone =>
        LET S == pages0[1].structure
            T == pages[1].structure
        IN  /\ Len(T) = Len(S) + Len(AddedIds)
            /\ \A a \in 1..Len(AddedIds) : T[Len(S) + a] = AddedIds[a]
            /\ \A i \in 1..Len(S) :
                   (\A e \in 1..Len(oplog) : IsReplace(oplog[e]) => oplog[e].old # S[i])
                       => T[i] = S[i]
            /\ \A e \in 1..Len(oplog) :
                   (IsReplace(oplog[e]) /\ IndexOf(S, oplog[e].old) # 0)
                       => T[IndexOf(S, oplog[e].old)] = oplog[e].new

\* C7: a replaced block never has an excluded type, has a type of the
\* restriction set when one is given, and is a Table whenever the block
\* replacing it is a MoleculeTable placed by the merge.
C7_TypeFilters ==
    \A e \in 1..Len(oplog) :
        IsReplace(oplog[e]) =>
            LET old == get_block(pages, oplog[e].old)
                new == get_block(pages, oplog[e].new)
            IN  /\ old.block_type \notin call_args.exclude_types
                /\ (call_args.target_types # {} => old.block_type \in call_args.target_types)
                /\ (detection_results # <<>> /\ new.block_type = "MoleculeTable")
                       => old.block_type = "Table"

\* C7 witness: an excluded Text child overlapping a candidate completely
\* was passed over and a later Table child was replaced by that candidate.
C7_Witness ==
    /\ DirectCallDone
    /\ call_args.exclude_types = {"Text"}
    /\ \E e \in 1..Len(oplog) :
           /\ IsReplace(oplog[e])
           /\ get_block(pages, oplog[e].old).block_type = "Table"
           /\ \E i \in 1..(oplog[e].old[2] - 1) :
                  /\ pages0[1].children[i].block_type = "Text"
                  /\ pages0[1].children[i].polygon = get_block(pages, oplog[e].new).polygon
                  /\ ~pages[1].children[i].removed

\* The placements (replacements and additions) logged for record r.
PlacementsOf(r) ==
    {e \in 1..Len(oplog) : RecordOf(e) = r /\ (IsReplace(oplog[e]) \/ IsAdd(oplog[e]))}

PageIdxOf(r) ==
    IF Has(detection_results[r], "page_idx") THEN detection_results[r].page_idx ELSE 0

ValidPageIdx(r) == PageIdxOf(r) \in 0..(Len(pages0) - 1)

\* The bboxes of record r that have exactly 4 coordinates, per block type.
WellFormedOf(detections) == SelectSeq(detections, LAMBDA d : Len(d.bbox) = 4)

\* C22 (as claimed): a detection record whose page_idx is outside
\* 0 .. number of pages - 1 modifies no page, and the records after it are
\* still merged.
C22_InvalidPageIdxSkipped ==
    MergeDone =>
        \A r \in 1..Len(detection_results) :
            IF ValidPageIdx(r)
            THEN Cardinality(PlacementsOf(r))
                     = Len(WellFormedOf(detection_results[r].molecules))
                         + Len(WellFormedOf(detection_results[r].tables))
            ELSE PlacementsOf(r) = {}

\* C23: a molecule or table detection whose bbox does not have exactly 4
\* coordinates produces no block and changes nothing on the page, while
\* the other detections of the same record are still merged: a record of
\* an existing page places one block per detection of 4 coordinates, with
\* that detection's box and type, and nothing else.
C23_MalformedBboxDropped ==
    MergeDone =>
        \A r \in 1..Len(detection_results) :
            LET mols == WellFormedOf(detection_results[r].molecules)
                tabs == WellFormedOf(detection_results[r].tables)
                P    == PlacementsOf(r)
                Placed(btype, bbox) ==
                    {e \in P : /\ get_block(pages, oplog[e].new).block_type = btype
                               /\ get_block(pages, oplog[e].new).polygon
                                      = bbox_to_polygon(bbox)}
            IN  ValidPageIdx(r) =>
                    /\ Cardinality(P) = Len(mols) + Len(tabs)
                    /\ \A k \in 1..Len(mols) :
                           Cardinality(Placed("Molecule", mols[k].bbox))
                               = Cardinality({j \in 1..Len(mols) : mols[j].bbox = mols[k].bbox})
                    /\ \A k \in 1..Len(tabs) :
                           Cardinality(Placed("MoleculeTable", tabs[k].bbox))
                               = Cardinality({j \in 1..Len(tabs) : tabs[j].bbox = tabs[k].bbox})

\* A merged record held a detection of 3 coordinates before a detection of
\* 4 coordinates of the same kind, and the latter was placed.
C23_Witness ==
    /\ MergeDone
    /\ \E r \in 1..Len(detection_results) :
           /\ \E i, j \in 1..Len(detection_results[r].tables) :
                  /\ i < j
                  /\ Len(detection_results[r].tables[i].bbox) # 4
                  /\ Len(detection_results[r].tables[j].bbox) = 4
           /\ ValidPageIdx(r)
           /\ PlacementsOf(r) # {}

\* C28: during the merge of one detection record every replacement target
\* is a block that was on the page before the merge of the record began: a
\* candidate never replaces a candidate the same record placed, neither
\* within a pass nor between the molecule pass and the table pass.
C28_TargetsPredateRecord ==
    MergeDone =>
        \A e \in 1..Len(oplog) :
            IsReplace(oplog[e]) =>
                \A d \in 1..(e - 1) :
                    (RecordOf(d) = RecordOf(e) /\ (IsReplace(oplog[d]) \/ IsAdd(oplog[d])))
                        => oplog[d].new # oplog[e].old

\* A record's molecule pass placed a molecule over the box of a Table and
\* its table pass then replaced that Table, not the molecule.
C28_Witness ==
    /\ MergeDone
    /\ \E d, e \in 1..Len(oplog) :
           /\ d < e /\ RecordOf(d) = RecordOf(e) /\ PassOf(d) < PassOf(e)
           /\ IsAdd(oplog[d]) \/ IsReplace(oplog[d])
           /\ IsReplace(oplog[e])
           /\ get_block(pages, oplog[d].new).polygon = get_block(pages, oplog[e].new).polygon

-----------------------------------------------------------------------------
(* Properties of define_regions *)

\* The define_regions rule a layout run applied, when it is the only rule.
LayoutRegionsRule == rule_engine.layout[1]

OneLayoutRegionsRule ==
    /\ Len(rule_engine.layout) = 1
    /\ RuleType(LayoutRegionsRule) = "define_regions"

LayoutReturned == LastCall = "LayoutRuleProcessor" /\ pc # "raised"
OrderReturned == LastCall = "OrderProcessor" /\ pc = "order"

\* How often an id occurs in a sequence of ids.
Occurrences(s, x) == Cardinality({i \in 1..Len(s) : s[i] = x})

SameBag(s, t) == \A x \in Range(s) \cup Range(t) : Occurrences(s, x) = Occurrences(t, x)

IsLeft(id, page) == 2 * x_start(get_block(pages, id).polygon) < width(page.polygon)

YStartOf(id) == y_start(get_block(pages, id).polygon)

\* ids listed top to bottom
Descends(s) == \A i, j \in 1..Len(s) : i < j => YStartOf(s[i]) <= YStartOf(s[j])

\* ids listed in the reading order of a layout type: for two_column the
\* left column top to bottom and then the right column top to bottom, a
\* block starting at the centre being of the right column; else top to bottom.
InReadingOrder(s, layout_type, page) ==
    IF layout_type = "two_column"
    THEN \A i, j \in 1..Len(s) : i < j =>
             \/ IsLeft(s[i], page) /\ ~IsLeft(s[j], page)
             \/ (IsLeft(s[i], page) <=> IsLeft(s[j], page))
                /\ YStartOf(s[i]) <= YStartOf(s[j])
    ELSE Descends(s)

\* The regions of a rule that carry a name.
DefinedRegions(rule, name) ==
    {i \in 1..Len(rule.regions) : rule.regions[i].name = name}

\* A block lies in a region: both edges within the region's bounds, which
\* are percentages of the page height, bounds included.
LiesInRegion(id, page, region) ==
    LET lo == IF Has(region, "y_start_percent") THEN region.y_start_percent ELSE 0
        hi == IF Has(region, "y_end_percent") THEN region.y_end_percent ELSE 100
        b  == get_block(pages, id).polygon
    IN  /\ height(page.polygon) * lo <= 100 * y_start(b)
        /\ 100 * y_end(b) <= height(page.polygon) * hi

LayoutTypeOf(region) ==
    IF Has(region, "layout_type") THEN region.layout_type ELSE "single_column"

\* new, from position `from` on, is what the regions region_order[k..] and
\* then the leftovers make of the structure before: one segment per region
\* in region_order, holding the blocks of before that lie in the region in
\* the region's reading order; an undefined name has no segment; the ids
\* placed by no region come last, each once, top to bottom.
RECURSIVE FollowsRegions(_, _, _, _, _, _, _)
FollowsRegions(new, from, before, page, rule, k, placed) ==
    IF k > Len(rule.region_order)
    THEN LET rest == SubSeq(new, from, Len(new))
             left == Range(before) \ placed
         IN  /\ Range(rest) = left
             /\ Len(rest) = Cardinality(left)
             /\ Descends(rest)
    ELSE LET D == DefinedRegions(rule, rule.region_order[k])
         IN  IF D = {} THEN FollowsRegions(new, from, before, page, rule, k + 1, placed)
             ELSE LET region  == rule.regions[CHOOSE i \in D : TRUE]
                      matched == SelectSeq(before, LAMBDA id : LiesInRegion(id, page, region))
                      seg     == SubSeq(new, from, from + Len(matched) - 1)
                  IN  /\ from + Len(matched) - 1 <= Len(new)
                      /\ SameBag(seg, matched)
                      /\ InReadingOrder(seg, LayoutTypeOf(region), page)
                      /\ FollowsRegions(new, from + Len(matched), before, page, rule,
                                        k + 1, placed \cup Range(matched))

\* C11: define_regions builds the new structure region by region in
\* region_order, each region contributing the blocks whose y_start and
\* y_end lie within its bounds (percent of page height, bounds included)
\* in the region's reading order; blocks of no region come last, ascending
\* by y_start; a name of region_order without a region contributes nothing.
\* Checked for the rule of LayoutRuleProcessor and for that of OrderProcessor.
C11_RegionsBuildStructure ==
    /\ (LayoutReturned /\ OneLayoutRegionsRule) =>
           \A i \in 1..Len(pages) :
               pages[i].page_id \in RulePages(LayoutRegionsRule) =>
                   FollowsRegions(pages[i].structure, 1, pages0[i].structure,
                                  pages[i], LayoutRegionsRule, 1, {})
    /\ OrderReturned =>
           \A e \in LatestEntries :
               oplog[e].op = "apply_define_regions_rule" =>
                   FollowsRegions(oplog[e].structure, 1, oplog[e].before,
                                  pages[PageIndex(pages, oplog[e].page_id)],
                                  RegionsRule(rule_engine).rule, 1, {})

\* A layout run has applied a rule whose region_order names a region that
\* is not defined, on a page with a header block filling its band exactly
\* and a block of no region, and the structure changed.
C11_Witness ==
    /\ LayoutReturned /\ OneLayoutRegionsRule
    /\ LayoutRegionsRule.region_order = <<"header", "footer", "body">>
    /\ \E i \in 1..Len(pages) :
           /\ pages[i].page_id \in RulePages(LayoutRegionsRule)
           /\ pages[i].structure # pages0[i].structure
           /\ \E a, b \in Range(pages[i].structure) :
                  /\ y_start(get_block(pages, a).polygon) = 0
                  /\ y_end(get_block(pages, a).polygon) = 200
                  /\ ~LiesInRegion(b, pages[i], HeaderBodyRegions[1])
                  /\ ~LiesInRegion(b, pages[i], HeaderBodyRegions[2])

\* The rule has one region that covers the whole page.
WholePageRule(rule) ==
    /\ Len(rule.regions) = 1
    /\ rule.region_order = <<"all">>
    /\ rule.regions[1].name = "all"
    /\ ~Has(rule.regions[1], "y_start_percent") \/ rule.regions[1].y_start_percent = 0
    /\ ~Has(rule.regions[1], "y_end_percent") \/ rule.regions[1].y_end_percent = 100

\* C12: for layout type two_column the sorted result is every block with
\* x_start < page_width / 2 in ascending y_start, then every block with
\* x_start >= page_width / 2 in ascending y_start; for single_column or any
\* other layout type it is all blocks in ascending y_start.  Observed on a
\* region that covers the whole page, so that every block is sorted.
C12_ReadingOrderOfLayoutType ==
    /\ (LayoutReturned /\ OneLayoutRegionsRule /\ WholePageRule(LayoutRegionsRule)) =>
           \A i \in 1..Len(pages) :
               pages[i].page_id \in RulePages(LayoutRegionsRule) =>
                   /\ SameBag(pages[i].structure, pages0[i].structure)
                   /\ InReadingOrder(pages[i].structure,
                                     LayoutTypeOf(LayoutRegionsRule.regions[1]), pages[i])
    /\ (OrderReturned /\ RegionsRule(rule_engine).found
           /\ WholePageRule(RegionsRule(rule_engine).rule)) =>
           \A e \in LatestEntries :
               oplog[e].op = "apply_define_regions_rule" =>
                   /\ SameBag(oplog[e].structure, oplog[e].before)
                   /\ InReadingOrder(oplog[e].structure,
                                     LayoutTypeOf(RegionsRule(rule_engine).rule.regions[1]),
                                     pages[PageIndex(pages, oplog[e].page_id)])

\* A two_column region has sorted a page where a block that starts at the
\* centre lies above a block of the left column: the left block comes first.
C12_Witness ==
    /\ LayoutReturned /\ OneLayoutRegionsRule /\ WholePageRule(LayoutRegionsRule)
    /\ LayoutTypeOf(LayoutRegionsRule.regions[1]) = "two_column"
    /\ \E i \in 1..Len(pages) :
           /\ pages[i].page_id \in RulePages(LayoutRegionsRule)
           /\ \E m, n \in 1..Len(pages[i].structure) :
                  /\ m < n
                  /\ IsLeft(pages[i].structure[m], pages[i])
                  /\ 2 * x_start(get_block(pages, pages[i].structure[n]).polygon)
                         = width(pages[i].polygon)
                  /\ YStartOf(pages[i].structure[n]) < YStartOf(pages[i].structure[m])

\* The pages some define_regions layout rule lists.
LayoutListedPages ==
    UNION {RulePages(rule_engine.layout[k]) :
              k \in {j \in 1..Len(rule_engine.layout) :
                        RuleType(rule_engine.layout[j]) = "define_regions"}}

\* C13: a define_regions rule affects only the pages whose id is in its
\* pages list: every other page keeps its structure and is not flagged as
\* rule-ordered; OrderProcessor calls its region rule on listed pages only.
C13_UnlistedPagesUntouched ==
    /\ LastCall = "LayoutRuleProcessor" =>
           \A i \in 1..Len(pages) :
               pages[i].page_id \notin LayoutListedPages =>
                   /\ pages[i].structure = pages0[i].structure
                   /\ pages[i].layout_rules_applied = pages0[i].layout_rules_applied
    /\ LastCall = "OrderProcessor" =>
           \A e \in LatestEntries :
               oplog[e].op = "apply_define_regions_rule" =>
                   oplog[e].page_id \in RulePages(RegionsRule(rule_engine).rule)

\* A layout run reordered a listed page and left alone an unlisted page
\* that the rule would have reordered.
C13_Witness ==
    /\ LayoutReturned /\ OneLayoutRegionsRule
    /\ \E i, j \in 1..Len(pages) :
           /\ pages[i].page_id \in RulePages(LayoutRegionsRule)
           /\ pages[i].structure # pages0[i].structure
           /\ pages[j].page_id \notin RulePages(LayoutRegionsRule)
           /\ pages0[j].structure \notin RegionOrderings(pages0[j], pages0, LayoutRegionsRule)
           /\ pages[j].structure = pages0[j].structure

\* The layout rules that return on every page they are applied to.
SoundLayoutRules ==
    SelectSeq(rule_engine.layout, LAMBDA rule :
        ~(RuleType(rule) = "define_regions" /\ RegionMapRaises(rule)))

\* C20 (as claimed): a rule that fails while being applied degrades to a
\* no-op for that rule only: no exception leaves LayoutRuleProcessor, and
\* the pages end as the remaining rules alone make them, on every page.
C20_FailingRuleIsNoOp ==
    LastCall = "LayoutRuleProcessor" =>
        /\ pc # "raised"
        /\ \E o \in LayoutRuleProcessor(pages0, [rule_engine EXCEPT !.layout = SoundLayoutRules]) :
               o.pages = pages

-----------------------------------------------------------------------------
(* Properties of the default ordering *)

DefaultReturned == LastCall = "apply_default_ordering" /\ pc = "default"

\* The page is one the default ordering works on.
Ordered(page) == page.text_extraction_method = "pdftext" /\ page.layout_sliced

\* The keys the latest call sorted page i by (doubled).
KeysOf(i) == BlockIdxs(pages0[i], pages0).idxs

SpansOf(id) == get_block(pages0, id).spans

\* Twice the midpoint of the first span's minimum_position and the last
\* span's maximum_position.
SpanKey(id) ==
    SpansOf(id)[1].minimum_position + SpansOf(id)[Len(SpansOf(id))].maximum_position

\* C14: default ordering only permutes a page's structure: the same ids
\* with the same multiplicities, none added and none removed.
C14_DefaultOrderingPermutes ==
    DefaultReturned =>
        \A i \in 1..Len(pages) : SameBag(pages[i].structure, pages0[i].structure)

\* A call has reordered a page that holds a block without spans.
C14_Witness ==
    /\ DefaultReturned
    /\ \E i \in 1..Len(pages) :
           /\ pages[i].structure # pages0[i].structure
           /\ \E id \in Range(pages0[i].structure) : SpansOf(id) = <<>>

\* C15: default ordering leaves the structure of a page untouched when the
\* page's text extraction method is not pdftext or the page was not
\* layout-sliced.
C15_SkippedPagesUntouched ==
    DefaultReturned =>
        \A i \in 1..Len(pages) :
            ~Ordered(pages0[i]) => pages[i].structure = pages0[i].structure

\* A call has left alone an OCR page and a page that was not layout-sliced,
\* both of which the sort would have reordered.
C15_Witness ==
    /\ DefaultReturned
    /\ \E i, j \in 1..Len(pages) :
           /\ pages0[i].text_extraction_method # "pdftext"
           /\ ~pages0[j].layout_sliced
           /\ \A k \in {i, j} :
                  /\ SortByIdx(pages0[k].structure, KeysOf(k)) # pages0[k].structure
                  /\ pages[k].structure = pages0[k].structure

\* C16 (as claimed): every block that contains a span is sorted by exactly
\* the midpoint of its first span's minimum_position and its last span's
\* maximum_position, a midpoint of 0 included; interpolation never
\* overrides a span-derived key.
C16_SpanKeyIsMidpoint ==
    DefaultReturned =>
        \A i \in 1..Len(pages) :
            Ordered(pages0[i]) =>
                \A id \in Range(pages0[i].structure) :
                    SpansOf(id) # <<>> => DictGet(KeysOf(i), id) = SpanKey(id)

\* The positions of page i's structure before position k, or after it,
\* whose block contains a span.
KeyedBefore(i, k) == {m \in 1..(k - 1) : SpansOf(pages0[i].structure[m]) # <<>>}
KeyedAfter(i, k) ==
    {m \in (k + 1)..Len(pages0[i].structure) : SpansOf(pages0[i].structure[m]) # <<>>}

\* C17 (as claimed): a block without spans gets the key of the nearest
\* preceding block that has a key plus the number of steps back to it; if
\* no preceding block has a key, the key of the nearest following keyed
\* block minus the number of steps forward.
C17_NeighbourInterpolation ==
    DefaultReturned =>
        \A i \in 1..Len(pages) :
            Ordered(pages0[i]) =>
                \A k \in 1..Len(pages0[i].structure) :
                    LET s  == pages0[i].structure
                        B  == KeyedBefore(i, k)
                        A  == KeyedAfter(i, k)
                        pk == CHOOSE m \in B : \A n \in B : n <= m
                        nk == CHOOSE m \in A : \A n \in A : m <= n
                    IN  SpansOf(s[k]) = <<>> =>
                            /\ B # {} => DictGet(KeysOf(i), s[k]) = SpanKey(s[pk]) + 2 * (k - pk)
                            /\ (B = {} /\ A # {}) =>
                                   DictGet(KeysOf(i), s[k]) = SpanKey(s[nk]) - 2 * (nk - k)

\* C18: when no block of a page's structure contains a span, default
\* ordering leaves the structure in its original order.
C18_NoSpansKeepsOrder ==
    DefaultReturned =>
        \A i \in 1..Len(pages) :
            (\A id \in Range(pages0[i].structure) : SpansOf(id) = <<>>)
                => pages[i].structure = pages0[i].structure

\* A call has worked on a page of two blocks, neither with a span.
C18_Witness ==
    /\ DefaultReturned
    /\ \E i \in 1..Len(pages) :
           /\ Ordered(pages0[i])
           /\ Len(pages0[i].structure) >= 2
           /\ \A id \in Range(pages0[i].structure) : SpansOf(id) = <<>>

\* C19: the structure produced by default ordering is the stable sort of
\* the previous structure by assigned key: keys are non-decreasing along
\* the new structure, and two blocks of equal key keep the relative order
\* they had before.
C19_StableSortByKey ==
    DefaultReturned =>
        \A i \in 1..Len(pages) :
            Ordered(pages0[i]) =>
                /\ SameBag(pages[i].structure, pages0[i].structure)
                /\ \A m, n \in 1..Len(pages[i].structure) :
                       LET a == pages[i].structure[m]
                           b == pages[i].structure[n]
                       IN  m < n =>
                               /\ DictGet(KeysOf(i), a) <= DictGet(KeysOf(i), b)
                               /\ DictGet(KeysOf(i), a) = DictGet(KeysOf(i), b) =>
                                      IndexOf(pages0[i].structure, a)
                                          < IndexOf(pages0[i].structure, b)

\* A call has moved a block past two blocks of equal key, which kept their
\* order.
C19_Witness ==
    /\ DefaultReturned
    /\ \E i \in 1..Len(pages) :
           /\ Ordered(pages0[i])
           /\ pages[i].structure # pages0[i].structure
           /\ \E a, b \in Range(pages0[i].structure) :
                  /\ a # b
                  /\ DictGet(KeysOf(i), a) = DictGet(KeysOf(i), b)


-----------------------------------------------------------------------------
(* Properties of apply_rules *)

KnownRuleTypes == {"exclude_gutter", "define_regions"}

KnownLayoutRules ==
    SelectSeq(rule_engine.layout, LAMBDA rule : RuleType(rule) \in KnownRuleTypes)

\* C21: a layout rule whose type is neither exclude_gutter nor
\* define_regions changes nothing on the page, and the rules listed after
\* it are still applied, in configuration order: the run ends as the run of
\* the known rules alone, in their order, ends.
C21_UnknownRuleSkipped ==
    LastCall = "LayoutRuleProcessor" =>
        \E o \in LayoutRuleProcessor(pages0, [rule_engine EXCEPT !.layout = KnownLayoutRules]) :
            /\ o.pages = pages
            /\ (o.raised # "None") <=> (pc = "raised")

\* A run has passed a rule of unknown type and then applied the rule after
\* it, which changed a page.
C21_Witness ==
    /\ LastCall = "LayoutRuleProcessor"
    /\ Len(rule_engine.layout) = 2
    /\ RuleType(rule_engine.layout[1]) \notin KnownRuleTypes
    /\ \E i \in 1..Len(pages) : pages[i].structure # pages0[i].structure


-----------------------------------------------------------------------------
(* Properties across repeated application *)

\* C26 (as claimed): for every define_regions rule, rules with overlapping
\* regions included, the structure apply_define_regions_rule writes is a
\* permutation of the previous structure: every id of the old structure
\* appears exactly once in the new one.
C26_RegionsPermuteStructure ==
    /\ (LayoutReturned /\ OneLayoutRegionsRule) =>
           \A i \in 1..Len(pages) :
               pages[i].page_id \in RulePages(LayoutRegionsRule) =>
                   /\ Range(pages[i].structure) = Range(pages0[i].structure)
                   /\ \A id \in Range(pages0[i].structure) :
                          Occurrences(pages[i].structure, id) = 1
    /\ OrderReturned =>
           \A e \in LatestEntries :
               oplog[e].op = "apply_define_regions_rule" =>
                   /\ Range(oplog[e].structure) = Range(oplog[e].before)
                   /\ \A id \in Range(oplog[e].before) :
                          Occurrences(oplog[e].structure, id) = 1

\* C27 (as claimed): apply_default_ordering is idempotent: applied again
\* to pages it has already ordered it leaves every structure unchanged.
C27_DefaultOrderingIdempotent ==
    (DefaultReturned /\ Len(Calls) >= 2) => pages = pages0


-----------------------------------------------------------------------------
(* Properties of the Gemini service *)

\* The recorded times that fall in the 60 seconds ending at `upto`.
InWindow(times, upto) ==
    Cardinality({i \in 1..Len(times) :
                    upto - WindowSeconds < times[i] /\ times[i] <= upto})

WithinLimit(model, times) ==
    \A i \in 1..Len(times) : InWindow(times, times[i]) <= MODEL_LIMITS(model)

\* C24: whatever the interleaving of the threads, the timestamps recorded
\* for a model within any 60 seconds never outnumber the model's rpm limit,
\* and a caller that finds the budget exhausted sleeps until the oldest
\* recorded request is 60 seconds old.
C24_AdmittedWithinLimit ==
    /\ \A m \in GeminiModel : WithinLimit(m, sent[m].admitted)
    /\ \A t \in DOMAIN threads :
          threads[t].pc = "rate_sleep" =>
              threads[t].wake_at = Head(REQUEST_TIMESTAMPS[threads[t].model]) + WindowSeconds

\* C25: a call makes at most max_retries + 1 attempts; after its k-th attempt
\* fails with 429, 443 or 503 and attempts remain it waits
\* k * retry_wait_time and tries again; any other failure, or a transient
\* one at the last attempt, ends the call with the empty result, and a
\* parsed answer ends it with that answer.
C25_RetryPolicy ==
    \A t \in DOMAIN threads :
        LET c == threads[t]
            last == c.max_retries + 1
        IN /\ c.tries <= last
           /\ c.pc = "retry_sleep" =>
                 /\ IsTransient(c.response)
                 /\ c.tries < last
                 /\ c.wait_time = c.tries * c.retry_wait_time
                 /\ c.wake_at = c.sent_at + c.wait_time
           /\ (c.pc = "attempt" /\ c.tries > 1) =>
                 /\ c.wait_time = (c.tries - 1) * c.retry_wait_time
                 /\ clock >= c.sent_at + c.wait_time
           /\ c.pc = "returned" =>
                 /\ c.tries >= 1
                 /\ c.response # NoResponse
                 /\ IsTransient(c.response) => c.tries = last
                 /\ c.result = (IF c.response.kind = "ok" THEN "json" ELSE "{}")
           /\ c.pc # "returned" => c.result = "none"

\* A call that was retried after its first and after its second failure and
\* gave up when its last attempt failed with a transient error too.
C25_Witness ==
    \E t \in DOMAIN threads :
        /\ threads[t].pc = "returned"
        /\ threads[t].result = "{}"
        /\ threads[t].tries = threads[t].max_retries + 1
        /\ threads[t].tries >= 3
        /\ IsTransient(threads[t].response)

\* C29: every generate_content request sent, retries included, has a
\* timestamp in the model's window, so the requests sent for a model within
\* any 60 seconds never outnumber its rpm limit.
C29_EverySentRequestCounted ==
    \A m \in GeminiModel :
        /\ Len(sent[m].requests) <= Len(sent[m].admitted)
        /\ WithinLimit(m, sent[m].requests)

BudgetAvailable(model) ==
    Len(PopOlder(REQUEST_TIMESTAMPS[model], clock)) < MODEL_LIMITS(model)

\* C30: a thread sleeping because one model's budget is exhausted does not
\* keep out a thread that calls another model whose budget is available,
\* and the lock is held by nobody but a thread inside the with block.
C30_ModelsIndependent ==
    /\ \A t, u \in DOMAIN threads :
          ~ /\ threads[t].pc = "rate_sleep"
            /\ threads[u].pc = "acquire"
            /\ threads[u].model # threads[t].model
            /\ BudgetAvailable(threads[u].model)
    /\ RATE_LIMIT_LOCK # 0 => threads[RATE_LIMIT_LOCK].pc = "rate_sleep"


=============================================================================
